---- MODULE Spec2Model ----
(***************************************************************************)
(* BevoNetBackup: the fleet backup of scripts/mock_backup_tool.py          *)
(* (MockNetworkBackupTool) and the snapshot listing, the line filter,     *)
(* the comparison and the comparison of the latest two backups of          *)
(* scripts/diff_checker.py (ConfigDiffChecker), deploy_config of           *)
(* scripts/config_deployer.py (ConfigDeployer) and run_daily_workflow of   *)
(* scripts/bevo_net_auto.py (DailyAutomation).                             *)
(*                                                                         *)
(* Strings are sequences of character codes (ASCII), so that prefix        *)
(* tests, glob matches and Python's lexicographic string order are         *)
(* computed and not assumed.  The wall clock counts half seconds from      *)
(* ClockBase, the granularity of the simulated delays.                     *)
(***************************************************************************)
EXTENDS Integers, Sequences, FiniteSets, TLC

\* ---------------------------------------------------------------- bounds
MaxDevices == 2
MaxRuns == 2
MaxTick == 5
MaxBackups == 2
MaxTextLen == 4
MaxPairLen == 4
MaxFilterCalls == 2
MaxSnapshots == 3

\* random.uniform(0.5, 2.0) seconds, in half-second ticks
MinDelay == 1
MaxDelay == 4

\* ------------------------------------------------------------ characters
Underscore == <<95>>
CfgSuffix == <<46, 99, 102, 103>>

NameA == <<97>>
NameAB == <<97, 95, 98>>
Names == {NameA, NameAB}

\* ------------------------------------------------------ string functions
\* Python str.startswith
StartsWith(s, p) ==
    /\ Len(p) <= Len(s)
    /\ \A i \in 1..Len(p) : s[i] = p[i]

\* Python str.endswith
EndsWith(s, p) ==
    /\ Len(p) <= Len(s)
    /\ \A i \in 1..Len(p) : s[Len(s) - Len(p) + i] = p[i]

\* Python's str order: code point by code point, a proper prefix is smaller
StrLess(s, t) ==
    \E k \in 0..Len(s) :
        /\ k <= Len(t)
        /\ \A i \in 1..k : s[i] = t[i]
        /\ \/ (k = Len(s) /\ k < Len(t))
           \/ (k < Len(s) /\ k < Len(t) /\ s[k + 1] < t[k + 1])

\* decimal digits of n, most significant first
RECURSIVE Digits(_)
Digits(n) == IF n < 10 THEN <<48 + n>> ELSE Digits(n \div 10) \o <<48 + (n % 10)>>

RECURSIVE Zeros(_)
Zeros(k) == IF k <= 0 THEN <<>> ELSE <<48>> \o Zeros(k - 1)

\* a number as strftime prints it without padding
PadNone(n, w) == Digits(n)

\* a strftime field of width w: %Y (w = 4), %m %d %H %M %S (w = 2), zero padded
Pad(n, w) == Zeros(w - Len(Digits(n))) \o Digits(n)

\* datetime.strftime("%Y%m%d_%H%M%S")
Strftime(dt) ==
    Pad(dt.year, 4) \o Pad(dt.month, 2) \o Pad(dt.day, 2) \o Underscore
        \o Pad(dt.hour, 2) \o Pad(dt.minute, 2) \o Pad(dt.second, 2)

\* f"{device['name']}_{timestamp}.cfg"
SnapshotFilename(name, dt) == name \o Underscore \o Strftime(dt) \o CfgSuffix

\* capture time order of two datetimes
DtKey(dt) == <<dt.year, dt.month, dt.day, dt.hour, dt.minute, dt.second>>
DtLess(a, b) ==
    \E k \in 1..6 :
        /\ \A i \in 1..(k - 1) : DtKey(a)[i] = DtKey(b)[i]
        /\ DtKey(a)[k] < DtKey(b)[k]

\* ------------------------------------------------------------ wall clock
ClockBase == [year |-> 2024, month |-> 1, day |-> 9,
              hour |-> 9, minute |-> 59, second |-> 58]

\* datetime.now() at tick t, truncated to the second
DatetimeNow(t) ==
    LET s == ClockBase.hour * 3600 + ClockBase.minute * 60 + ClockBase.second + (t \div 2)
    IN  [year |-> ClockBase.year, month |-> ClockBase.month, day |-> ClockBase.day,
         hour |-> s \div 3600, minute |-> (s \div 60) % 60, second |-> s % 60]

\* ---------------------------------------------------- configuration text
\* the characters of the modelled texts: line feed, space, "!" and "a"
LF == 10
Space == 32
Bang == 33
Chars == {LF, Space, Bang, 97}

\* the ASCII characters str.strip() removes
Whitespace == {9, 10, 11, 12, 13, 28, 29, 30, 31, 32}

\* all texts of at most n characters
TextsUpTo(n) == UNION {[1..k -> Chars] : k \in 0..n}

\* str.splitlines() from position i on, cur the line read so far: a line
\* ends at a line feed, a last line without line feed counts when not empty
RECURSIVE SplitFrom(_, _, _)
SplitFrom(s, i, cur) ==
    IF i > Len(s) THEN (IF cur = <<>> THEN <<>> ELSE <<cur>>)
    ELSE IF s[i] = LF THEN <<cur>> \o SplitFrom(s, i + 1, <<>>)
    ELSE SplitFrom(s, i + 1, Append(cur, s[i]))

Splitlines(s) == SplitFrom(s, 1, <<>>)

\* str.strip()
RECURSIVE LStrip(_)
LStrip(s) ==
    IF s # <<>> /\ s[1] \in Whitespace THEN LStrip(Tail(s)) ELSE s

RECURSIVE RStrip(_)
RStrip(s) ==
    IF s # <<>> /\ s[Len(s)] \in Whitespace
    THEN RStrip(SubSeq(s, 1, Len(s) - 1)) ELSE s

Strip(s) == RStrip(LStrip(s))

\* '\n'.join(lines)
RECURSIVE Join(_)
Join(lines) ==
    IF lines = <<>> THEN <<>>
    ELSE IF Len(lines) = 1 THEN lines[1]
    ELSE lines[1] \o <<LF>> \o Join(Tail(lines))

\* load_ignore_patterns: the default patterns
DefaultPatterns ==
    << <<33, 32, 76, 97, 115, 116, 32, 99, 111, 110, 102, 105, 103, 117, 114, 97,
         116, 105, 111, 110, 32, 99, 104, 97, 110, 103, 101>>,
       <<33, 32, 78, 86, 82, 65, 77, 32, 99, 111, 110, 102, 105, 103, 32, 108, 97,
         115, 116, 32, 117, 112, 100, 97, 116, 101, 100>>,
       <<33, 84, 105, 109, 101, 58>>,
       <<33>>,
       <<35>> >>

\* load_ignore_patterns: comparison.ignore_lines of a settings file, here
\* an empty list and the list ["a!", "!!"]
NoPatterns == <<>>
CustomPatterns == << <<97, 33>>, <<33, 33>> >>

PatternLists == {DefaultPatterns, NoPatterns, CustomPatterns}

\* the match test compares the unstripped line
IgnoreLineUnstripped(line, patterns) ==
    \E k \in 1..Len(patterns) : StartsWith(line, patterns[k])

\* "for pattern in self.ignore_patterns: if line.strip().startswith(pattern):
\* ignore_line = True; break"
RECURSIVE IgnoreLine(_, _)
IgnoreLine(line, patterns) ==
    IF patterns = <<>> THEN FALSE
    ELSE IF StartsWith(Strip(line), patterns[1]) THEN TRUE
    ELSE IgnoreLine(line, Tail(patterns))

\* "for line in lines: ... if not ignore_line: filtered_lines.append(line)"
RECURSIVE FilteredLines(_, _)
FilteredLines(lines, patterns) ==
    IF lines = <<>> THEN <<>>
    ELSE IF IgnoreLine(lines[1], patterns) THEN FilteredLines(Tail(lines), patterns)
    ELSE <<lines[1]>> \o FilteredLines(Tail(lines), patterns)

\* filter_ignored_lines
FilterIgnoredLines(config_content, patterns) ==
    IF config_content = <<>> THEN <<>>
    ELSE Join(FilteredLines(Splitlines(config_content), patterns))

\* ----------------------------------------------------------------- state
VARIABLES
    devices,        \* self.devices: the inventory, a sequence of [name, host]
    pc,             \* position of backup_all_devices / backup_single_device
    idx,            \* index of the device the for loop is at
    conn,           \* connection of the current device: <<>> is None
    config,         \* retrieved config of the current device: <<>> is None
    results,        \* the results dict of the run in progress
    returned,       \* value returned by the current run: <<>> while none
    store,          \* backup_dir/*.cfg: filename -> snapshot
    resultsFile,    \* backup_dir/backup_results.json: <<>> while absent
    now,            \* wall clock, half seconds since ClockBase
    runs,           \* fleet runs started
    connectCalls,   \* connect_to_device calls of this run, per inventory index
    retrieveCalls,  \* get_device_config calls of this run, per inventory index
    storeCalls,     \* open(filepath, 'w') calls of this run, per inventory index
    resultsWrites,  \* open(results_file, 'w') calls of this run
    outcome,        \* how each device of this run ended, per inventory index
    listing,        \* value returned by get_all_backups_for_device
    backedUp,       \* snapshot filenames of the backups that returned True
    stampIn,        \* a device name and two capture times to be formatted
    stampOut,       \* their two snapshot filenames: <<>> while not formatted
    filterIn,       \* a checker's ignore_patterns and a text to be filtered
    filterOut,      \* the values filter_ignored_lines returned so far
    diffIn,         \* a checker's ignore_patterns and two config files
    diffOut,        \* the results compare_configs returned so far
    backupDir,      \* self.backup_dir of a checker: [exists, files]
    selPc,          \* position of compare_latest_two_backups
    selDevice,      \* its device_name
    backupFiles,    \* its backup_files
    config1Content, \* config1_content of its compare_configs: <<>> while unread
    diffRuns,       \* comparisons its compare_configs carried through
    selResult,      \* the value it returned: <<>> while none
    removed,        \* the files an external cleanup removed from backupDir
    deployIn,       \* a deployer's inventory and the arguments of deploy_config
    deployOut,      \* the value deploy_config returned: <<>> while none
    fileLooks,      \* accesses of deploy_config to the config file
    simulateCalls,  \* calls of simulate_deployment
    dailyPc,        \* position of run_daily_workflow
    backupResults,  \* its backup_results: <<>> is None
    comparisonResults, \* its comparison_results: <<>> is None
    steps           \* what run_daily_workflow did so far, in order

fleetVars == <<devices, pc, idx, conn, config, results, returned, store, resultsFile,
               now, runs, connectCalls, retrieveCalls, storeCalls, resultsWrites,
               outcome, listing, backedUp>>
stampVars == <<stampIn, stampOut>>
textVars == <<filterIn, filterOut, diffIn, diffOut>>
selVars == <<backupDir, selPc, selDevice, backupFiles, config1Content, diffRuns,
             selResult, removed>>
deployVars == <<deployIn, deployOut, fileLooks, simulateCalls>>
dailyVars == <<dailyPc, backupResults, comparisonResults, steps>>
vars == <<fleetVars, stampVars, textVars, selVars, deployVars, dailyVars>>

Delays == MinDelay..MaxDelay
WriteOutcomes == {"ok", "open_error", "write_error"}

\* device name lists of devices.yaml, names may repeat
Inventories == UNION {[1..n -> Names] : n \in 0..MaxDevices}

\* self.devices: each entry with its host (its position stands for the address)
WithHosts(inv) == [i \in 1..Len(inv) |-> [name |-> inv[i], host |-> i]]

NoFiles == [f \in {} |-> 0]
EmptyContent == [hostname |-> <<>>, generated |-> 0]
NoResults == [success |-> <<>>, failed |-> <<>>, timestamp |-> 0,
              total_devices |-> 0, type |-> "none"]
NoListing == [valid |-> FALSE, exists |-> FALSE, device |-> <<>>, files |-> <<>>]

Running == pc \in {"connect", "retrieve", "store", "save"}
Quiescent == pc \in {"idle", "returned", "aborted"}

NoStamp == [name |-> <<>>, a |-> ClockBase, b |-> ClockBase]

\* no text at hand, no checker at work
NoFilterIn == [patterns |-> <<>>, text |-> <<>>]
NoDiffIn == [patterns |-> <<>>, files |-> <<>>]
NoDir == [exists |-> FALSE, files |-> [f \in {} |-> 0]]

TextIdle ==
    /\ filterIn = NoFilterIn
    /\ filterOut = <<>>
    /\ diffIn = NoDiffIn
    /\ diffOut = <<>>

SelIdle ==
    /\ backupDir = NoDir
    /\ selPc = "idle"
    /\ selDevice = <<>>
    /\ backupFiles = <<>>
    /\ config1Content = <<>>
    /\ diffRuns = 0
    /\ selResult = <<>>
    /\ removed = {}

\* no deployer at work
NoDeployIn == [inventory |-> {}, device_name |-> <<>>,
               file |-> [exists |-> FALSE, readable |-> FALSE, text |-> <<>>],
               dry_run |-> TRUE]

DeployIdle ==
    /\ deployIn = NoDeployIn
    /\ deployOut = <<>>
    /\ fileLooks = 0
    /\ simulateCalls = 0

\* no daily workflow at work
DailyIdle ==
    /\ dailyPc = "idle"
    /\ backupResults = <<>>
    /\ comparisonResults = <<>>
    /\ steps = <<>>

\* the tool after construction, with inventory inv, on a backup directory
\* that holds files
FleetInitOn(inv, files) ==
    /\ devices = WithHosts(inv)
    /\ pc = "idle"
    /\ idx = 0
    /\ conn = <<>>
    /\ config = <<>>
    /\ results = NoResults
    /\ returned = <<>>
    /\ store = files
    /\ resultsFile = <<>>
    /\ now = 0
    /\ runs = 0
    /\ connectCalls = [i \in 1..Len(devices) |-> 0]
    /\ retrieveCalls = [i \in 1..Len(devices) |-> 0]
    /\ storeCalls = [i \in 1..Len(devices) |-> 0]
    /\ resultsWrites = 0
    /\ outcome = [i \in 1..Len(devices) |-> "pending"]
    /\ listing = NoListing
    /\ backedUp = {}

\* the tool after construction, with inventory inv, on a new backup directory
FleetInit(inv) == FleetInitOn(inv, NoFiles)

Init ==
    /\ \E inv \in Inventories : FleetInit(inv)
    /\ stampIn = NoStamp
    /\ stampOut = <<>>
    /\ DeployIdle
    /\ DailyIdle
    /\ TextIdle
    /\ SelIdle

\* ------------------------------------------------- backup_all_devices
\* the loop drops a failed device instead of recording it
AppendResultDropFailed(res, ok, device) ==
    IF ok THEN [res EXCEPT !.success = Append(@, device)] ELSE res

\* results['success'].append / results['failed'].append
AppendResult(res, ok, device) ==
    IF ok THEN [res EXCEPT !.success = Append(@, device)]
          ELSE [res EXCEPT !.failed = Append(@, device)]

\* the loop stops one device short
LoopNextPcShort(i) == IF i >= Len(devices) THEN "save" ELSE "connect"

\* "for device in self.devices": the next device, or the save after the last
LoopNextPc(i) == IF i > Len(devices) THEN "save" ELSE "connect"

\* sleeps a run still needs when the loop is at device i
SleepsFrom(i) == 2 * (Len(devices) - i + 1)

\* the loop goes on to the next device before it records this one
AdvanceWithoutRecord(ok, why) ==
    /\ results' = results
    /\ outcome' = [outcome EXCEPT ![idx] = why]
    /\ idx' = idx + 1
    /\ pc' = LoopNextPc(idx + 1)
    /\ conn' = <<>>
    /\ config' = <<>>

\* backup_single_device returned ok for devices[idx], its locals are gone;
\* the loop records the device and goes on
RecordAndAdvance(ok, why) ==
    /\ results' = AppendResult(results, ok, devices[idx])
    /\ outcome' = [outcome EXCEPT ![idx] = why]
    /\ idx' = idx + 1
    /\ pc' = LoopNextPc(idx + 1)
    /\ conn' = <<>>
    /\ config' = <<>>

\* the results dict with a device count that is one too many
NewResultsMiscounted(t) ==
    [success |-> <<>>, failed |-> <<>>, timestamp |-> t,
     total_devices |-> Len(devices) + 1, type |-> "mock_backup"]

\* results = {'success': [], 'failed': [], 'timestamp': ..., 'total_devices':
\* len(self.devices), 'type': 'mock_backup'}
NewResults(t) ==
    [success |-> <<>>, failed |-> <<>>, timestamp |-> t,
     total_devices |-> Len(devices), type |-> "mock_backup"]

\* the wall clock readings at which a run of an inventory of n devices can
\* start and end inside the modelled clock range.  main() starts the first
\* run right after the construction of the tool, when the clock reads 0.
StartTimes(n) ==
    {t \in 0..MaxTick : t + MinDelay * 2 * n <= MaxTick /\ (runs = 0 => t = 0)}

\* entry of backup_all_devices: the results dict, then the loop.  The run
\* starts when the wall clock reads t: later than the last reading (time has
\* passed) or earlier (datetime.now() is the naive local time, set back at
\* the end of daylight saving time or by a clock correction).  The runs of a
\* behaviour back up at most MaxBackups devices in all.  The caller is done
\* with an earlier listing when it starts a run.
StartRun ==
    /\ Quiescent
    /\ runs < MaxRuns
    /\ (runs + 1) * Len(devices) <= MaxBackups
    /\ \E t \in StartTimes(Len(devices)) :
        /\ now' = t
        /\ results' = NewResults(t)
    /\ runs' = runs + 1
    /\ idx' = 1
    /\ pc' = LoopNextPc(1)
    /\ conn' = <<>>
    /\ config' = <<>>
    /\ connectCalls' = [i \in 1..Len(devices) |-> 0]
    /\ retrieveCalls' = [i \in 1..Len(devices) |-> 0]
    /\ storeCalls' = [i \in 1..Len(devices) |-> 0]
    /\ resultsWrites' = 0
    /\ outcome' = [i \in 1..Len(devices) |-> "pending"]
    /\ returned' = <<>>
    /\ listing' = NoListing
    /\ UNCHANGED <<devices, store, resultsFile, backedUp, stampVars, deployVars, dailyVars,
                   textVars, selVars>>

\* ------------------------------------------------ backup_single_device
\* simulate_connection_delay: the sleeps that leave the rest of the run
\* inside the modelled clock range
SleepChoices(after) == {d \in Delays : now + d + MinDelay * after <= MaxTick}

\* the exception of a failed connection leaves backup_all_devices
ConnectRaises ==
    /\ outcome' = [outcome EXCEPT ![idx] = "connect_failed"]
    /\ pc' = "aborted"
    /\ UNCHANGED <<results, idx, conn, config>>

\* the loop connects again to a device whose connection failed
ConnectRetried == UNCHANGED <<results, outcome, idx, pc, conn, config>>

\* backup_single_device goes on with a connection that failed
ConnectFailureIgnored ==
    /\ outcome' = [outcome EXCEPT ![idx] = "connect_failed"]
    /\ conn' = <<[connected |-> FALSE, device |-> devices[idx]]>>
    /\ pc' = "retrieve"
    /\ UNCHANGED <<results, idx, config>>

\* connect_to_device caught its exception and returned None: "if not
\* connection: return False", and the loop records the device as failed
ConnectReturnsNone == RecordAndAdvance(FALSE, "connect_failed")

\* connect_to_device: sleep, then a connection or None
Connect ==
    /\ pc = "connect"
    /\ \E d \in SleepChoices(SleepsFrom(idx) - 1), ok \in BOOLEAN :
        /\ now' = now + d
        /\ connectCalls' = [connectCalls EXCEPT ![idx] = @ + 1]
        /\ IF ok
           THEN /\ conn' = <<[connected |-> TRUE, device |-> devices[idx]]>>
                /\ pc' = "retrieve"
                /\ UNCHANGED <<results, outcome, idx, config>>
           ELSE ConnectReturnsNone
    /\ UNCHANGED <<devices, returned, store, resultsFile, runs,
                   retrieveCalls, storeCalls, resultsWrites, listing, backedUp,
                   stampVars, deployVars, dailyVars, textVars, selVars>>

\* get_device_config: sleep, generate the config ("Generated:
\* {datetime.now()}"), then the config or None ("if not config: return False")
Retrieve ==
    /\ pc = "retrieve"
    /\ \E d \in SleepChoices(SleepsFrom(idx) - 2), ok \in BOOLEAN :
        /\ now' = now + d
        /\ retrieveCalls' = [retrieveCalls EXCEPT ![idx] = @ + 1]
        /\ IF ok
           THEN /\ config' = <<[hostname |-> conn[1].device.name, generated |-> now']>>
                /\ pc' = "store"
                /\ UNCHANGED <<results, outcome, idx, conn>>
           ELSE RecordAndAdvance(FALSE, "retrieve_failed")
    /\ UNCHANGED <<devices, returned, store, resultsFile, runs,
                   connectCalls, storeCalls, resultsWrites, listing, backedUp,
                   stampVars, deployVars, dailyVars, textVars, selVars>>

\* with open(path, 'w') as f: f.write(data) on a directory of files: open
\* truncates or creates the file, the write fills it
WriteFile(files, path, data, truncated, w) ==
    IF w = "open_error" THEN files
    ELSE [f \in DOMAIN files \cup {path} |->
            IF f = path THEN (IF w = "ok" THEN data ELSE truncated) ELSE files[f]]

\* the exception of a failed snapshot write leaves backup_all_devices
SnapshotWriteFatal ==
    /\ outcome' = [outcome EXCEPT ![idx] = "store_failed"]
    /\ pc' = "aborted"
    /\ UNCHANGED <<results, idx, conn, config>>

\* "except Exception as e: ... return False" around the snapshot write, and
\* the loop records the device as failed
SnapshotWriteFailed == RecordAndAdvance(FALSE, "store_failed")

\* the rest of backup_single_device: the filename from the clock, the
\* snapshot file, then {name}_info.json (its content is not modelled, its
\* failure is); "except Exception: return False"
Store ==
    /\ pc = "store"
    /\ LET device == devices[idx]
           dt == DatetimeNow(now)
           filename == SnapshotFilename(device.name, dt)
           snapshot == [device |-> device.name, captured |-> dt,
                        content |-> config[1], complete |-> TRUE]
           cut == [device |-> device.name, captured |-> dt,
                   content |-> EmptyContent, complete |-> FALSE]
       IN  \E w1 \in WriteOutcomes :
            /\ storeCalls' = [storeCalls EXCEPT ![idx] = @ + 1]
            /\ store' = WriteFile(store, filename, snapshot, cut, w1)
            /\ IF w1 # "ok" THEN SnapshotWriteFailed /\ UNCHANGED backedUp
               ELSE \E infoOk \in BOOLEAN :
                    IF infoOk THEN /\ RecordAndAdvance(TRUE, "ok")
                                   /\ backedUp' = backedUp \cup {filename}
                              ELSE /\ RecordAndAdvance(FALSE, "info_failed")
                                   /\ UNCHANGED backedUp
    /\ UNCHANGED <<devices, returned, resultsFile, now, runs,
                   connectCalls, retrieveCalls, resultsWrites, listing,
                   stampVars, deployVars, dailyVars, textVars, selVars>>

\* after the loop: backup_results.json, then "return results"; an exception
\* of the write leaves backup_all_devices
Save ==
    /\ pc = "save"
    /\ \E w \in WriteOutcomes :
        /\ resultsWrites' = resultsWrites + 1
        /\ resultsFile' = WriteFile([f \in DOMAIN resultsFile |-> resultsFile[f]],
                                    1, results, NoResults, w)
        /\ IF w = "ok" THEN pc' = "returned" /\ returned' = <<results>>
                       ELSE pc' = "aborted" /\ returned' = <<>>
    /\ UNCHANGED <<devices, idx, conn, config, results, store, now, runs,
                   connectCalls, retrieveCalls, storeCalls, outcome, listing, backedUp,
                   stampVars, deployVars, dailyVars, textVars, selVars>>

\* ------------------------------------------ get_all_backups_for_device
\* fnmatch of f"{device_name}_*.cfg" (a name without glob metacharacters)
GlobMatch(device_name, filename) ==
    /\ Len(filename) >= Len(device_name) + Len(Underscore) + Len(CfgSuffix)
    /\ StartsWith(filename, device_name \o Underscore)
    /\ EndsWith(filename, CfgSuffix)

\* backup_files.sort(key=lambda x: x.name, reverse=True)
RECURSIVE SortDescending(_)
SortDescending(S) ==
    IF S = {} THEN <<>>
    ELSE LET m == CHOOSE x \in S : \A y \in S \ {x} : StrLess(y, x)
         IN  <<m>> \o SortDescending(S \ {m})

\* dir: [exists, files], the backup_dir of the checker
GetAllBackupsForDevice(dir, device_name) ==
    IF ~dir.exists THEN <<>>
    ELSE SortDescending({f \in dir.files : GlobMatch(device_name, f)})

\* a call of get_all_backups_for_device between fleet runs, on the backup
\* directory of the tool or, by a checker used before the first run, on a
\* directory that does not exist
ListBackups ==
    /\ Quiescent
    /\ \E d \in Names, exists \in BOOLEAN :
        /\ ~exists => runs = 0
        /\ LET dir == [exists |-> exists,
                       files |-> IF exists THEN DOMAIN store ELSE {}]
           IN  listing' = [valid |-> TRUE, exists |-> exists, device |-> d,
                           files |-> GetAllBackupsForDevice(dir, d)]
    /\ UNCHANGED <<devices, pc, idx, conn, config, results, returned, store,
                   resultsFile, now, runs, connectCalls, retrieveCalls, storeCalls,
                   resultsWrites, outcome, backedUp,
                   stampVars, deployVars, dailyVars, textVars, selVars>>

\* ------------------------------------------- snapshot filename format
Years == {1999, 2000}
Months == {9, 10}
Days == {9, 10}
Hours == {9, 10}
Minutes == {9, 10}
Seconds == {9, 10}

Datetimes ==
    [year : Years, month : Months, day : Days,
     hour : Hours, minute : Minutes, second : Seconds]

\* the tool with an empty inventory, and a device name and two capture times
InitStamp ==
    /\ FleetInit(<<>>)
    /\ stampIn \in [name : Names, a : Datetimes, b : Datetimes]
    /\ stampOut = <<>>
    /\ DeployIdle
    /\ DailyIdle
    /\ TextIdle
    /\ SelIdle

\* the filenames backup_single_device gives the two snapshots
FormatFilenames ==
    /\ stampOut = <<>>
    /\ stampOut' = <<[a |-> SnapshotFilename(stampIn.name, stampIn.a),
                      b |-> SnapshotFilename(stampIn.name, stampIn.b)]>>
    /\ UNCHANGED <<fleetVars, stampIn, deployVars, dailyVars, textVars, selVars>>

NextStamp == FormatFilenames

SpecStamp == InitStamp /\ [][NextStamp]_vars

\* ------------------------------------------------------ text normalizer
\* a checker with its ignore patterns, and a text
InitFilter ==
    /\ FleetInit(<<>>)
    /\ stampIn = NoStamp
    /\ stampOut = <<>>
    /\ DeployIdle
    /\ DailyIdle
    /\ filterIn \in [patterns : PatternLists, text : TextsUpTo(MaxTextLen)]
    /\ filterOut = <<>>
    /\ diffIn = NoDiffIn
    /\ diffOut = <<>>
    /\ SelIdle

\* a call of filter_ignored_lines: on the text, then on what the call
\* before returned
FilterCall ==
    /\ Len(filterOut) < MaxFilterCalls
    /\ LET arg == IF filterOut = <<>> THEN filterIn.text ELSE filterOut[Len(filterOut)]
       IN  filterOut' = Append(filterOut, FilterIgnoredLines(arg, filterIn.patterns))
    /\ UNCHANGED <<fleetVars, stampVars, deployVars, dailyVars, filterIn, diffIn,
                   diffOut, selVars>>

NextFilter == FilterCall

SpecFilter == InitFilter /\ [][NextFilter]_vars

\* ---------------------------------------------------------- diff engine
SummaryIdentical ==
    <<67, 111, 110, 102, 105, 103, 117, 114, 97, 116, 105, 111, 110, 115, 32, 97,
      114, 101, 32, 105, 100, 101, 110, 116, 105, 99, 97, 108>>
SummaryFound == <<70, 111, 117, 110, 100, 32>>
SummaryDifferences == <<32, 100, 105, 102, 102, 101, 114, 101, 110, 99, 101, 115>>
SummaryError ==
    <<67, 111, 109, 112, 97, 114, 105, 115, 111, 110, 32, 101, 114, 114, 111, 114,
      58, 32>>

\* the loop stops at the end of the first text
MaxLinesFirst(n1, n2) == n1

\* the loop stops at the end of the shorter text
MinLines(n1, n2) == IF n1 <= n2 THEN n1 ELSE n2

\* max(len(lines1), len(lines2))
MaxLines(n1, n2) == IF n1 >= n2 THEN n1 ELSE n2

\* the first text padded with its last line
Line1AtClamped(lines1, i) ==
    IF i <= Len(lines1) THEN lines1[i]
    ELSE IF lines1 = <<>> THEN <<>> ELSE lines1[Len(lines1)]

\* "line1 = lines1[i] if i < len(lines1) else ''", i counted from 1
Line1At(lines1, i) == IF i <= Len(lines1) THEN lines1[i] ELSE <<>>

\* the second text read one line ahead
Line2AtNext(lines2, i) == IF i < Len(lines2) THEN lines2[i + 1] ELSE <<>>

\* "line2 = lines2[i] if i < len(lines2) else ''", i counted from 1
Line2At(lines2, i) == IF i <= Len(lines2) THEN lines2[i] ELSE <<>>

\* "for i in range(max_lines): ... if line1 != line2: differences.append(...)"
\* from the i-th line on, line_number is i + 1 of the 0-based loop
RECURSIVE DifferencesFrom(_, _, _, _)
DifferencesFrom(lines1, lines2, i, max_lines) ==
    IF i > max_lines THEN <<>>
    ELSE LET line1 == Line1At(lines1, i)
             line2 == Line2At(lines2, i)
             rest == DifferencesFrom(lines1, lines2, i + 1, max_lines)
         IN  IF line1 # line2
             THEN <<[line_number |-> i, old_value |-> line1, new_value |-> line2]>>
                      \o rest
             ELSE rest

\* identical whenever at most one line differs
IsIdenticalLenient(differences) == Len(differences) <= 1

\* "identical = len(differences) == 0"
IsIdentical(differences) == Len(differences) = 0

\* the summary counts one difference too many
SummaryMiscounted(identical, differences) ==
    IF identical THEN SummaryIdentical
    ELSE SummaryFound \o Digits(Len(differences) + 1) \o SummaryDifferences

\* "summary = ..."
Summary(identical, differences) ==
    IF identical THEN SummaryIdentical
    ELSE SummaryFound \o Digits(Len(differences)) \o SummaryDifferences

\* the error result that passes for a comparison without differences
ComparisonErrorIdentical(device_name) ==
    [identical |-> TRUE, differences_count |-> 0, summary |-> SummaryError,
     differences |-> <<>>, device |-> device_name, error |-> "read_error"]

\* "except Exception as e: ... return {...}"; str(e) is the operating
\* system's message
ComparisonError(device_name) ==
    [identical |-> FALSE, differences_count |-> 0, summary |-> SummaryError,
     differences |-> <<>>, device |-> device_name, error |-> "read_error"]

\* the try block of compare_configs once both texts are read; name1 and
\* name2 are Path(config1_path).name and Path(config2_path).name
Comparison(config1_content, config2_content, patterns, device_name, name1, name2) ==
    LET filtered1 == FilterIgnoredLines(config1_content, patterns)
        filtered2 == FilterIgnoredLines(config2_content, patterns)
        lines1 == Splitlines(filtered1)
        lines2 == Splitlines(filtered2)
        max_lines == MaxLines(Len(lines1), Len(lines2))
        differences == DifferencesFrom(lines1, lines2, 1, max_lines)
        identical == IsIdentical(differences)
    IN  [identical |-> identical, differences_count |-> Len(differences),
         summary |-> Summary(identical, differences), differences |-> differences,
         device |-> device_name, config1_file |-> name1, config2_file |-> name2]

\* a file as read_text() finds it
Unreadable == [readable |-> FALSE, text |-> <<>>]
Readable(text) == [readable |-> TRUE, text |-> text]

\* compare_configs on two files that do not change during the call
CompareConfigs(file1, file2, patterns, device_name, name1, name2) ==
    IF ~file1.readable \/ ~file2.readable THEN ComparisonError(device_name)
    ELSE Comparison(file1.text, file2.text, patterns, device_name, name1, name2)

FileStates(n) == {Unreadable} \cup {Readable(t) : t \in TextsUpTo(n)}

\* the calls made on the two files: (1, 2), then (2, 1), then (1, 1)
CallPlan == << <<1, 2>>, <<2, 1>>, <<1, 1>> >>
FileName(i) == <<48 + i>> \o CfgSuffix

\* a checker with its ignore patterns, and two files
InitDiff ==
    /\ FleetInit(<<>>)
    /\ stampIn = NoStamp
    /\ stampOut = <<>>
    /\ DeployIdle
    /\ DailyIdle
    /\ filterIn = NoFilterIn
    /\ filterOut = <<>>
    /\ \E k \in 0..MaxPairLen, p \in PatternLists :
        \E f1 \in FileStates(k), f2 \in FileStates(MaxPairLen - k) :
            diffIn = [patterns |-> p, files |-> <<f1, f2>>]
    /\ diffOut = <<>>
    /\ SelIdle

\* the next call of compare_configs
CompareCall ==
    /\ Len(diffOut) < Len(CallPlan)
    /\ LET call == CallPlan[Len(diffOut) + 1]
       IN  diffOut' = Append(diffOut,
               CompareConfigs(diffIn.files[call[1]], diffIn.files[call[2]],
                              diffIn.patterns, NameA,
                              FileName(call[1]), FileName(call[2])))
    /\ UNCHANGED <<fleetVars, stampVars, deployVars, dailyVars, filterIn, filterOut,
                   diffIn, selVars>>

NextDiff == CompareCall

SpecDiff == InitDiff /\ [][NextDiff]_vars

\* ------------------------------------------------------ backup selector
\* the k-th snapshot a directory may hold: of device "a_b" or "a", taken k - 1
\* seconds after ClockBase
Candidate(k) ==
    [device |-> IF k % 3 = 1 THEN NameAB ELSE NameA,
     captured |-> DatetimeNow(2 * (k - 1))]
CandidateFilename(k) == SnapshotFilename(Candidate(k).device, Candidate(k).captured)

\* the texts of the snapshots: "a" and "a\n a"
SnapshotTexts == {<<97>>, <<97, LF, Space, 97>>}

\* a backup directory with the snapshots K, snapshot k with the text textOf[k]
DirOf(K, textOf) ==
    [exists |-> TRUE,
     files |-> [f \in {CandidateFilename(k) : k \in K} |->
                    textOf[CHOOSE k \in K : CandidateFilename(k) = f]]]

\* a missing directory, or a directory with some of the snapshots
Dirs ==
    {NoDir} \cup
    UNION {{DirOf(K, textOf) : textOf \in [K -> SnapshotTexts]} :
               K \in SUBSET (1..MaxSnapshots)}

\* a checker made without a settings file
SelPatterns == DefaultPatterns

InsufficientPrefix ==
    <<73, 110, 115, 117, 102, 102, 105, 99, 105, 101, 110, 116, 32, 98, 97, 99,
      107, 117, 112, 115, 58, 32>>
InsufficientSuffix ==
    <<32, 102, 111, 117, 110, 100, 44, 32, 110, 101, 101, 100, 32, 97, 116, 32,
      108, 101, 97, 115, 116, 32, 50>>

\* "return {'error': f"Insufficient backups: {len(backup_files)} found, need
\* at least 2", 'device': device_name, 'backups_available': len(backup_files)}"
Insufficient(n, device_name) ==
    [error |-> InsufficientPrefix \o Digits(n) \o InsufficientSuffix,
     device |-> device_name, backups_available |-> n]

\* comparison_result.update({'backups_compared': {...}})
WithBackupsCompared(result, previous, latest) ==
    [f \in DOMAIN result \cup {"backups_compared"} |->
        IF f = "backups_compared" THEN [previous |-> previous, latest |-> latest]
        ELSE result[f]]

InitSelect ==
    /\ FleetInit(<<>>)
    /\ stampIn = NoStamp
    /\ stampOut = <<>>
    /\ DeployIdle
    /\ DailyIdle
    /\ TextIdle
    /\ backupDir \in Dirs
    /\ selPc = "idle"
    /\ selDevice = <<>>
    /\ backupFiles = <<>>
    /\ config1Content = <<>>
    /\ diffRuns = 0
    /\ selResult = <<>>
    /\ removed = {}

\* entry of compare_latest_two_backups: the listing, then the result for
\* fewer than two files or the way into compare_configs
SelectList ==
    /\ selPc = "idle"
    /\ \E d \in Names :
        LET dir == [exists |-> backupDir.exists, files |-> DOMAIN backupDir.files]
            backup_files == GetAllBackupsForDevice(dir, d)
        IN  /\ selDevice' = d
            /\ backupFiles' = backup_files
            /\ IF Len(backup_files) < 2
               THEN /\ selResult' = <<Insufficient(Len(backup_files), d)>>
                    /\ selPc' = "done"
               ELSE /\ selResult' = <<>>
                    /\ selPc' = "read1"
    /\ UNCHANGED <<fleetVars, stampVars, deployVars, dailyVars, textVars, backupDir,
                   config1Content,
                   diffRuns, removed>>

\* the FileNotFoundError of read_text() leaves compare_latest_two_backups
ReadFailedRaises ==
    /\ selResult' = <<>>
    /\ selPc' = "raised"

\* read_text() raised: the except of compare_configs returns the error
\* result, to which compare_latest_two_backups adds backups_compared
ReadFailed ==
    /\ selResult' = <<WithBackupsCompared(ComparisonError(selDevice),
                                           backupFiles[2], backupFiles[1])>>
    /\ selPc' = "done"

\* the file is opened for writing: read_text() finds it empty afterwards
AfterReadTextTruncated(dir, f) ==
    IF f \in DOMAIN dir.files THEN [dir EXCEPT !.files[f] = <<>>] ELSE dir

\* the directory after Path(f).read_text(): the file is opened for reading
\* and closed, a missing file is not created
AfterReadText(dir, f) == dir

\* compare_configs(previous_backup, latest_backup): config1_content
SelectRead1 ==
    /\ selPc = "read1"
    /\ backupDir' = AfterReadText(backupDir, backupFiles[2])
    /\ IF backupFiles[2] \in DOMAIN backupDir.files
       THEN /\ config1Content' = <<backupDir.files[backupFiles[2]]>>
            /\ selPc' = "read2"
            /\ UNCHANGED selResult
       ELSE /\ ReadFailed
            /\ UNCHANGED config1Content
    /\ UNCHANGED <<fleetVars, stampVars, deployVars, dailyVars, textVars, selDevice,
                   backupFiles, diffRuns, removed>>

\* config2_content and the rest of compare_configs, then backups_compared
\* and the return
SelectRead2 ==
    /\ selPc = "read2"
    /\ IF backupFiles[1] \in DOMAIN backupDir.files
       THEN /\ selResult' =
                   <<WithBackupsCompared(
                         Comparison(config1Content[1], backupDir.files[backupFiles[1]],
                                    SelPatterns, selDevice,
                                    backupFiles[2], backupFiles[1]),
                         backupFiles[2], backupFiles[1])>>
            /\ selPc' = "done"
            /\ diffRuns' = diffRuns + 1
       ELSE /\ ReadFailed
            /\ UNCHANGED diffRuns
    /\ backupDir' = AfterReadText(backupDir, backupFiles[1])
    /\ UNCHANGED <<fleetVars, stampVars, deployVars, dailyVars, textVars, selDevice,
                   backupFiles, config1Content, removed>>

\* an external cleanup removes a snapshot file
Cleanup ==
    /\ \E f \in DOMAIN backupDir.files :
        /\ backupDir' = [backupDir EXCEPT
                            !.files = [g \in DOMAIN backupDir.files \ {f} |->
                                           backupDir.files[g]]]
        /\ removed' = removed \cup {f}
    /\ UNCHANGED <<fleetVars, stampVars, deployVars, dailyVars, textVars, selPc,
                   selDevice, backupFiles,
                   config1Content, diffRuns, selResult>>

NextSelect == SelectList \/ SelectRead1 \/ SelectRead2 \/ Cleanup

SpecSelect == InitSelect /\ [][NextSelect]_vars

\* ------------------------------------------------------- specification
RunStep == Connect \/ Retrieve \/ Store \/ Save

Next == StartRun \/ Connect \/ Retrieve \/ Store \/ Save \/ ListBackups

Spec == Init /\ [][Next]_vars

\* the for loop and its calls are straight-line code with finite sleeps: a
\* run in progress takes its next step
FairSpec == Spec /\ WF_vars(RunStep)

TypeOK ==
    /\ pc \in {"idle", "connect", "retrieve", "store", "save", "returned", "aborted"}
    /\ now \in 0..MaxTick
    /\ runs \in 0..MaxRuns

\* ------------------------------------------------------ config deployer
Hash == 35

MsgDevice ==
    <<68, 101, 118, 105, 99, 101, 32, 39>>
MsgNotInInventory ==
    <<39, 32, 110, 111, 116, 32, 102, 111, 117, 110, 100, 32, 105, 110,
      32, 105, 110, 118, 101, 110, 116, 111, 114, 121>>
MsgConfigFile ==
    <<67, 111, 110, 102, 105, 103, 32, 102, 105, 108, 101, 32, 39>>
MsgNotFound ==
    <<39, 32, 110, 111, 116, 32, 102, 111, 117, 110, 100>>
MsgErrorReading ==
    <<69, 114, 114, 111, 114, 32, 114, 101, 97, 100, 105, 110, 103, 32,
      99, 111, 110, 102, 105, 103, 32, 102, 105, 108, 101, 58, 32>>
MsgDryRun ==
    <<68, 82, 89, 45, 82, 85, 78, 58, 32, 87, 111, 117, 108, 100, 32,
      100, 101, 112, 108, 111, 121, 32>>
MsgCommandsTo ==
    <<32, 99, 111, 109, 109, 97, 110, 100, 115, 32, 116, 111, 32>>
MsgPartiallyFailed ==
    <<68, 101, 112, 108, 111, 121, 109, 101, 110, 116, 32, 112, 97, 114,
      116, 105, 97, 108, 108, 121, 32, 102, 97, 105, 108, 101, 100, 58,
      32>>
MsgCommandsFailed ==
    <<32, 99, 111, 109, 109, 97, 110, 100, 115, 32, 102, 97, 105, 108,
      101, 100>>
MsgDeployed ==
    <<67, 111, 110, 102, 105, 103, 117, 114, 97, 116, 105, 111, 110, 32,
      115, 117, 99, 99, 101, 115, 115, 102, 117, 108, 108, 121, 32, 100,
      101, 112, 108, 111, 121, 101, 100, 32, 116, 111, 32>>

\* the config_file argument: "c.txt"
ConfigFilePath == <<99, 46, 116, 120, 116>>

\* the config file as deploy_config finds it: missing, present but not
\* readable (a directory, no permission), or a text
NoFile == [exists |-> FALSE, readable |-> FALSE, text |-> <<>>]
LockedFile == [exists |-> TRUE, readable |-> FALSE, text |-> <<>>]
TextFile(text) == [exists |-> TRUE, readable |-> TRUE, text |-> text]

\* the texts of the config file: "", "a", "!a", " !", "#\na", " a \n\na",
\* " \n"
ConfigTexts ==
    {<<>>, <<97>>, <<Bang, 97>>, <<Space, Bang>>, <<Hash, LF, 97>>,
     <<Space, 97, Space, LF, LF, 97>>, <<Space, LF>>}

ConfigFiles == {NoFile, LockedFile} \cup {TextFile(t) : t \in ConfigTexts}

\* "not line.startswith('!') and not line.startswith('#')", on the line as
\* it stands in the file
IsCommand(line) ==
    /\ Strip(line) # <<>>
    /\ ~StartsWith(line, <<Bang>>)
    /\ ~StartsWith(line, <<Hash>>)

\* "[line.strip() for line in ... if ...]"
RECURSIVE CommandsOf(_)
CommandsOf(lines) ==
    IF lines = <<>> THEN <<>>
    ELSE IF IsCommand(lines[1]) THEN <<Strip(lines[1])>> \o CommandsOf(Tail(lines))
    ELSE CommandsOf(Tail(lines))

\* config_commands of a config_content
ConfigCommands(config_content) == CommandsOf(Splitlines(config_content))

\* seq[:n]
FirstN(seq, n) == SubSeq(seq, 1, IF Len(seq) < n THEN Len(seq) ELSE n)

\* every name is found in the inventory
FindDeviceAny(inventory, device_name) == <<device_name>>

\* find_device: self.devices.get(device_name), <<>> is None; the inventory
\* is the key set of self.devices
FindDevice(inventory, device_name) ==
    IF device_name \in inventory THEN <<device_name>> ELSE <<>>

\* "if not device: return {...}"
DeviceNotFound(device_name) ==
    [success |-> FALSE,
     message |-> MsgDevice \o device_name \o MsgNotInInventory,
     device |-> device_name]

\* "if not config_path.exists(): return {...}"
ConfigFileNotFound(device_name, config_file) ==
    [success |-> FALSE,
     message |-> MsgConfigFile \o config_file \o MsgNotFound,
     device |-> device_name, config_file |-> config_file]

\* the except of the read; str(e) is the operating system's message
ErrorReadingConfigFile(device_name, config_file) ==
    [success |-> FALSE, message |-> MsgErrorReading,
     device |-> device_name, config_file |-> config_file]

\* "if dry_run: return {...}"
DryRunResult(device_name, config_file, config_commands) ==
    [success |-> TRUE,
     message |-> MsgDryRun \o Digits(Len(config_commands)) \o MsgCommandsTo
                     \o device_name,
     device |-> device_name, config_file |-> config_file,
     commands_count |-> Len(config_commands),
     commands_preview |-> FirstN(config_commands, 5),
     dry_run |-> TRUE]

\* the commands at the positions P, in their order
RECURSIVE CommandsAt(_, _, _)
CommandsAt(config_commands, P, i) ==
    IF i > Len(config_commands) THEN <<>>
    ELSE IF i \in P THEN <<config_commands[i]>> \o CommandsAt(config_commands, P, i + 1)
    ELSE CommandsAt(config_commands, P, i + 1)

\* success_rate as a fraction
SuccessRate(successful, total) ==
    IF total = 0 THEN [num |-> 1, den |-> 1] ELSE [num |-> successful, den |-> total]

\* simulate_deployment, the commands at the positions failed fail
SimulateDeployment(device, config_commands, config_file, failed) ==
    LET total == Len(config_commands)
        failed_commands == CommandsAt(config_commands, failed, 1)
        successful_commands == CommandsAt(config_commands, (1..total) \ failed, 1)
    IN  IF failed_commands # <<>>
        THEN [success |-> FALSE,
              message |-> MsgPartiallyFailed \o Digits(Len(failed_commands))
                              \o <<47>> \o Digits(total) \o MsgCommandsFailed,
              device |-> device, config_file |-> config_file,
              commands_total |-> total,
              commands_successful |-> Len(successful_commands),
              commands_failed |-> Len(failed_commands),
              success_rate |-> SuccessRate(Len(successful_commands), total),
              failed_commands |-> FirstN(failed_commands, 10)]
        ELSE [success |-> TRUE,
              message |-> MsgDeployed \o device,
              device |-> device, config_file |-> config_file,
              commands_total |-> total,
              commands_successful |-> Len(successful_commands),
              success_rate |-> SuccessRate(Len(successful_commands), total),
              commands_sent |-> FirstN(successful_commands, 10)]

\* a deployer with its inventory, and the arguments of a deploy_config call
InitDeploy ==
    /\ FleetInit(<<>>)
    /\ stampIn = NoStamp
    /\ stampOut = <<>>
    /\ TextIdle
    /\ SelIdle
    /\ DailyIdle
    /\ deployIn \in [inventory : SUBSET Names, device_name : Names,
                     file : ConfigFiles, dry_run : BOOLEAN]
    /\ deployOut = <<>>
    /\ fileLooks = 0
    /\ simulateCalls = 0

\* deploy_config: the device, the config file (exists(), then open()), then
\* the dry run result or simulate_deployment
DeployConfig ==
    /\ deployOut = <<>>
    /\ LET device_name == deployIn.device_name
           device == FindDevice(deployIn.inventory, device_name)
           file == deployIn.file
           config_commands == ConfigCommands(file.text)
       IN  IF device = <<>>
           THEN /\ deployOut' = <<DeviceNotFound(device_name)>>
                /\ UNCHANGED <<fileLooks, simulateCalls>>
           ELSE IF ~file.exists
           THEN /\ deployOut' = <<ConfigFileNotFound(device_name, ConfigFilePath)>>
                /\ fileLooks' = fileLooks + 1
                /\ UNCHANGED simulateCalls
           ELSE IF ~file.readable
           THEN /\ deployOut' = <<ErrorReadingConfigFile(device_name, ConfigFilePath)>>
                /\ fileLooks' = fileLooks + 2
                /\ UNCHANGED simulateCalls
           ELSE IF deployIn.dry_run
           THEN /\ deployOut' = <<DryRunResult(device_name, ConfigFilePath,
                                               config_commands)>>
                /\ fileLooks' = fileLooks + 2
                /\ UNCHANGED simulateCalls
           ELSE /\ \E failed \in SUBSET (1..Len(config_commands)) :
                       deployOut' = <<SimulateDeployment(device[1], config_commands,
                                                         ConfigFilePath, failed)>>
                /\ fileLooks' = fileLooks + 2
                /\ simulateCalls' = simulateCalls + 1
    /\ UNCHANGED <<fleetVars, stampVars, textVars, selVars, dailyVars, deployIn>>

NextDeploy == DeployConfig

SpecDeploy == InitDeploy /\ [][NextDeploy]_vars

\* ------------------------------------------------------- daily workflow
\* run_daily_workflow is entered; the inventory is the one the tool of
\* run_backup will load
InitDaily ==
    /\ \E inv \in Inventories : FleetInit(inv)
    /\ stampIn = NoStamp
    /\ stampOut = <<>>
    /\ TextIdle
    /\ SelIdle
    /\ DeployIdle
    /\ dailyPc = "backup"
    /\ backupResults = <<>>
    /\ comparisonResults = <<>>
    /\ steps = <<>>

\* run_backup: MockNetworkBackupTool() raises (load_configs raises again
\* what it caught), "except Exception as e: ... return None"
BackupToolFails ==
    /\ dailyPc = "backup"
    /\ pc = "idle"
    /\ backupResults' = <<>>
    /\ steps' = Append(steps, "backup")
    /\ dailyPc' = "compare"
    /\ UNCHANGED <<fleetVars, stampVars, textVars, selVars, deployVars,
                   comparisonResults>>

\* run_backup: backup_tool.backup_all_devices() is entered
BackupStarts ==
    /\ dailyPc = "backup"
    /\ runs = 0
    /\ StartRun

\* run_backup returns the results, or None when backup_all_devices raised
BackupReturns ==
    /\ dailyPc = "backup"
    /\ pc \in {"returned", "aborted"}
    /\ backupResults' = IF pc = "returned" THEN returned ELSE <<>>
    /\ steps' = Append(steps, "backup")
    /\ dailyPc' = "compare"
    /\ UNCHANGED <<fleetVars, stampVars, textVars, selVars, deployVars,
                   comparisonResults>>

\* the comparison runs after every backup step that returned results
ComparisonDueAnyResult(backup_results) == backup_results # <<>>

\* "if backup_results and len(backup_results.get('success', [])) > 0"
ComparisonDue(backup_results) ==
    /\ backup_results # <<>>
    /\ Len(backup_results[1].success) > 0

\* run_comparison: ConfigDiffChecker has no check_all_devices_changes, the
\* AttributeError is caught, "return None"
RunComparison ==
    /\ dailyPc = "compare"
    /\ ComparisonDue(backupResults)
    /\ comparisonResults' = <<>>
    /\ steps' = Append(steps, "comparison")
    /\ dailyPc' = "report"
    /\ UNCHANGED <<fleetVars, stampVars, textVars, selVars, deployVars,
                   backupResults>>

\* "else: self.logger.warning(... Skipping comparison ...)"
SkipComparison ==
    /\ dailyPc = "compare"
    /\ ~ComparisonDue(backupResults)
    /\ steps' = Append(steps, "skipped")
    /\ dailyPc' = "report"
    /\ UNCHANGED <<fleetVars, stampVars, textVars, selVars, deployVars,
                   backupResults, comparisonResults>>

\* generate_daily_report and the rest of run_daily_workflow; an exception of
\* the write of the report file leaves run_daily_workflow
GenerateDailyReport ==
    /\ dailyPc = "report"
    /\ steps' = Append(steps, "report")
    /\ \E w \in WriteOutcomes : dailyPc' = IF w = "ok" THEN "finished" ELSE "failed"
    /\ UNCHANGED <<fleetVars, stampVars, textVars, selVars, deployVars,
                   backupResults, comparisonResults>>

NextDaily ==
    \/ BackupToolFails
    \/ BackupStarts
    \/ Connect
    \/ Retrieve
    \/ Store
    \/ Save
    \/ BackupReturns
    \/ RunComparison
    \/ SkipComparison
    \/ GenerateDailyReport

SpecDaily == InitDaily /\ [][NextDaily]_vars

\* run_daily_workflow is straight-line code over calls that return: it takes
\* its next step
FairDaily == SpecDaily /\ WF_vars(NextDaily)

\* ------------------------------------------- fleet runs, then a checker
\* the snapshot an earlier tool wrote of device "a_b" when the clock read 0
EarlierSnapshot ==
    [device |-> NameAB, captured |-> DatetimeNow(0),
     content |-> [hostname |-> NameAB, generated |-> 0], complete |-> TRUE]

\* the backup directory the tool is constructed on ("mkdir(exist_ok=True)"):
\* new, or left by the earlier tool
EarlierStores ==
    {NoFiles,
     [f \in {SnapshotFilename(NameAB, DatetimeNow(0))} |-> EarlierSnapshot]}

InitRuns ==
    /\ \E inv \in Inventories, files \in EarlierStores : FleetInitOn(inv, files)
    /\ stampIn = NoStamp
    /\ stampOut = <<>>
    /\ TextIdle
    /\ SelIdle
    /\ DeployIdle
    /\ DailyIdle

\* a fleet run that starts before a checker looks at the directory, the
\* wall clock not set back since the run before
StartRunForward ==
    /\ ~backupDir.exists
    /\ selPc = "idle"
    /\ StartRun
    /\ now' >= now

\* the text of a snapshot file: the "!" and "! Generated: ..." lines of the
\* generated config, then its hostname line; nothing of a file cut short
ConfigText(snapshot) ==
    IF ~snapshot.complete THEN <<>>
    ELSE <<Bang, LF, Bang, Space>> \o Digits(snapshot.content.generated) \o <<LF>>
             \o snapshot.content.hostname \o <<LF>>

\* ConfigDiffChecker(backup_dir=...) on the backup directory of the tool,
\* between fleet runs
OpenBackupDir ==
    /\ Quiescent
    /\ ~backupDir.exists
    /\ selPc = "idle"
    /\ backupDir' = [exists |-> TRUE,
                     files |-> [f \in DOMAIN store |-> ConfigText(store[f])]]
    /\ UNCHANGED <<fleetVars, stampVars, textVars, deployVars, dailyVars, selPc,
                   selDevice, backupFiles, config1Content, diffRuns, selResult,
                   removed>>

\* compare_latest_two_backups of the checker
CheckerList == backupDir.exists /\ SelectList

NextRuns ==
    \/ StartRunForward
    \/ Connect
    \/ Retrieve
    \/ Store
    \/ Save
    \/ OpenBackupDir
    \/ CheckerList
    \/ SelectRead1
    \/ SelectRead2

SpecRuns == InitRuns /\ [][NextRuns]_vars

\* ---------------------------------------------------------------- claims
Range(seq) == {seq[i] : i \in 1..Len(seq)}
NameSet(seq) == {seq[i].name : i \in 1..Len(seq)}
UniqueNames ==
    \A i, j \in 1..Len(devices) : devices[i].name = devices[j].name => i = j
AllProcessed ==
    /\ idx = Len(devices) + 1
    /\ \A i \in 1..Len(devices) : outcome[i] # "pending"

\* C1: when backup_all_devices returns for an inventory of unique device
\* names, the names in success and in failed together are exactly the
\* inventory's names, no name is in both lists and none is twice in a list.
C1_Partition ==
    (pc = "returned" /\ UniqueNames) =>
        LET r == returned[1]
        IN  /\ NameSet(r.success) \cup NameSet(r.failed) = NameSet(devices)
            /\ NameSet(r.success) \cap NameSet(r.failed) = {}
            /\ Cardinality(NameSet(r.success)) = Len(r.success)
            /\ Cardinality(NameSet(r.failed)) = Len(r.failed)

C1_Witness ==
    /\ pc = "returned" /\ UniqueNames /\ Len(devices) = 2
    /\ Len(returned[1].success) = 1 /\ Len(returned[1].failed) = 1

\* C2: a connect or retrieve failure does not abort the run: the failing
\* device is in failed, only the write of the results file can end the run
\* with an exception, the loop reaches the end of the device list with every
\* device processed, and the run then comes back to its caller.
C2_FailureIsolated ==
    /\ [](\A i \in 1..Len(devices) :
            outcome[i] \in {"connect_failed", "retrieve_failed"}
                => devices[i] \in Range(results.failed))
    /\ [][(pc # "aborted" /\ pc' = "aborted") => pc = "save"]_vars
    /\ (pc \in {"connect", "retrieve", "store"} ~> (pc = "save" /\ AllProcessed))
    /\ (pc = "save" ~> (pc \in {"returned", "aborted"} /\ AllProcessed))

C2_Witness ==
    /\ pc = "returned" /\ Len(devices) = 2
    /\ outcome[1] = "connect_failed" /\ outcome[2] = "ok"
    /\ Len(returned[1].success) = 1

C4_NoRetry ==
    /\ pc \in {"save", "returned", "aborted"} => idx = Len(devices) + 1
    /\ \A i \in 1..Len(devices) :
        /\ connectCalls[i] <= 1
        /\ retrieveCalls[i] <= 1
        /\ i < idx => connectCalls[i] = 1
        /\ outcome[i] = "connect_failed" => retrieveCalls[i] = 0

C4_Witness ==
    /\ pc = "returned" /\ Len(devices) = 2
    /\ outcome[1] = "connect_failed" /\ outcome[2] = "retrieve_failed"
    /\ connectCalls[1] = 1 /\ connectCalls[2] = 1

C6_ResultsFile ==
    /\ resultsWrites > 0 => AllProcessed
    /\ pc \in {"connect", "retrieve", "store", "save"} => resultsWrites = 0
    /\ pc = "returned" =>
        /\ resultsWrites = 1
        /\ resultsFile[1].success = returned[1].success
        /\ resultsFile[1].failed = returned[1].failed
        /\ resultsFile[1].total_devices = returned[1].total_devices
        /\ returned[1].total_devices = Len(devices)
        /\ Len(returned[1].success) + Len(returned[1].failed) = Len(devices)

C6_Witness ==
    /\ pc = "returned" /\ Len(devices) = 2 /\ resultsWrites = 1
    /\ Len(resultsFile[1].success) = 1 /\ Len(resultsFile[1].failed) = 1

\* C7: on an empty inventory a run makes no connect, retrieve or snapshot
\* write and returns success = [], failed = [], total_devices = 0.
C7_EmptyInventory ==
    Len(devices) = 0 =>
        /\ pc \notin {"connect", "retrieve", "store"}
        /\ store = NoFiles
        /\ pc = "returned" =>
            /\ returned[1].success = <<>>
            /\ returned[1].failed = <<>>
            /\ returned[1].total_devices = 0

C7_Witness == Len(devices) = 0 /\ pc = "returned" /\ runs = 2

\* C8: of two snapshots of one device with distinct capture times, the
\* later one has the greater filename in string order.
C8_FilenameOrder ==
    stampOut # <<>> =>
        /\ DtLess(stampIn.a, stampIn.b) => StrLess(stampOut[1].a, stampOut[1].b)
        /\ DtLess(stampIn.b, stampIn.a) => StrLess(stampOut[1].b, stampOut[1].a)

C8_Witness ==
    /\ stampOut # <<>>
    /\ stampIn.a.hour = 9 /\ stampIn.b.hour = 10
    /\ stampIn.a.year = stampIn.b.year /\ stampIn.a.month = stampIn.b.month
    /\ stampIn.a.day = stampIn.b.day
    /\ StrLess(stampOut[1].a, stampOut[1].b)

\* C9: in a listing every entry has a later capture time than the entry
\* after it.
C9_NewestFirst ==
    listing.valid =>
        \A i \in 1..(Len(listing.files) - 1) :
            DtLess(store[listing.files[i + 1]].captured,
                   store[listing.files[i]].captured)

\* C10: the listing of device d holds all and only the stored snapshots of
\* device d.
C10_OwnSnapshotsOnly ==
    (listing.valid /\ listing.exists) =>
        Range(listing.files) = {f \in DOMAIN store : store[f].device = listing.device}

\* C21: get_all_backups_for_device returns the empty sequence when the
\* backup directory does not exist or holds no snapshot of the device.
C21_EmptyWhenNone ==
    listing.valid =>
        ((~listing.exists
             \/ ~\E f \in DOMAIN store : store[f].device = listing.device)
            => listing.files = <<>>)

\* C23: the steps of a device are gated: no get_device_config without a
\* connect before it, no snapshot write without a get_device_config before
\* it, no get_device_config and no snapshot write for a device whose
\* connect failed, no snapshot write for a device whose retrieve failed.
C23_StepsGated ==
    \A i \in 1..Len(devices) :
        /\ retrieveCalls[i] <= connectCalls[i]
        /\ storeCalls[i] <= retrieveCalls[i]
        /\ outcome[i] = "connect_failed" => (retrieveCalls[i] = 0 /\ storeCalls[i] = 0)
        /\ outcome[i] = "retrieve_failed" => storeCalls[i] = 0

C23_Witness ==
    /\ pc = "returned" /\ Len(devices) = 2
    /\ outcome[1] = "retrieve_failed" /\ outcome[2] = "connect_failed"
    /\ retrieveCalls[1] = 1 /\ storeCalls[1] = 0 /\ retrieveCalls[2] = 0

\* C24: a device has a connect, retrieve or store step only after every
\* device before it in the inventory has finished and is recorded in
\* success or failed.
C24_Sequential ==
    \A i \in 1..Len(devices) :
        (connectCalls[i] + retrieveCalls[i] + storeCalls[i] > 0) =>
            \A j \in 1..(i - 1) :
                /\ outcome[j] # "pending"
                /\ devices[j] \in Range(results.success) \cup Range(results.failed)

C24_Witness ==
    /\ pc = "retrieve" /\ idx = 2
    /\ connectCalls[2] = 1 /\ storeCalls[2] = 0
    /\ outcome[1] = "store_failed" /\ devices[1] \in Range(results.failed)

\* C26: at the end of the first run of an inventory of unique names a
\* device is in success exactly when the backup directory holds a snapshot
\* file of the device.
C26_SuccessIffSnapshot ==
    (runs = 1 /\ pc = "returned" /\ UniqueNames) =>
        \A i \in 1..Len(devices) :
            devices[i] \in Range(returned[1].success)
                <=> \E f \in DOMAIN store : store[f].device = devices[i].name

\* line i of a line sequence padded with empty lines
PaddedLine(lines, i) == IF i \in 1..Len(lines) THEN lines[i] ELSE <<>>
LineNumbers(differences) ==
    {differences[d].line_number : d \in 1..Len(differences)}

\* the snapshot a file of the backup directory is, and the files that are
\* snapshots of device d, newest first by capture time
SnapshotOf(f) == Candidate(CHOOSE k \in 1..MaxSnapshots : CandidateFilename(k) = f)
OwnSnapshots(files, d) == {f \in files : SnapshotOf(f).device = d}
NewestOf(F) ==
    CHOOSE f \in F :
        \A g \in F \ {f} : DtLess(SnapshotOf(g).captured, SnapshotOf(f).captured)
NormalizedLines(text) == Splitlines(FilterIgnoredLines(text, SelPatterns))

\* C11: a call of compare_latest_two_backups for a device with n < 2 stored
\* snapshots returns at once, without a diff, the result with the error
\* "Insufficient backups: n found, need at least 2" and backups_available n.
C11_Insufficient ==
    [][(selPc = "idle" /\ selPc' # "idle") =>
          LET n == Cardinality(OwnSnapshots(DOMAIN backupDir.files, selDevice'))
          IN  n < 2 =>
                  /\ selPc' = "done"
                  /\ selResult' = <<Insufficient(n, selDevice')>>
                  /\ diffRuns' = 0]_vars

\* C12: for a device with at least two stored snapshots, none of which is
\* removed during the call, compare_latest_two_backups names the device's
\* second-newest snapshot as previous and its newest as latest, and every
\* difference has its old_value from the second-newest and its new_value
\* from the newest.
C12_PreviousThenLatest ==
    LET own == OwnSnapshots(DOMAIN backupDir.files, selDevice)
    IN  (selPc = "done" /\ removed = {} /\ Cardinality(own) >= 2) =>
            LET newest == NewestOf(own)
                second == NewestOf(own \ {newest})
                r == selResult[1]
            IN  /\ "backups_compared" \in DOMAIN r
                /\ r.backups_compared = [previous |-> second, latest |-> newest]
                /\ "differences" \in DOMAIN r
                /\ \A d \in 1..Len(r.differences) :
                    LET rec == r.differences[d]
                    IN  /\ rec.old_value =
                               PaddedLine(NormalizedLines(backupDir.files[second]),
                                          rec.line_number)
                        /\ rec.new_value =
                               PaddedLine(NormalizedLines(backupDir.files[newest]),
                                          rec.line_number)

\* C13: when a listed snapshot file is gone by the time compare_configs
\* reads it, compare_latest_two_backups still returns, and its result
\* carries an error field.
C13_VanishedIsResult ==
    [][/\ (/\ selPc = "read1" /\ selPc' # "read1"
           /\ backupFiles[2] \notin DOMAIN backupDir.files) =>
              (selPc' = "done" /\ Len(selResult') = 1
                  /\ "error" \in DOMAIN selResult'[1])
       /\ (/\ selPc = "read2" /\ selPc' # "read2"
           /\ backupFiles[1] \notin DOMAIN backupDir.files) =>
              (selPc' = "done" /\ Len(selResult') = 1
                  /\ "error" \in DOMAIN selResult'[1])
       /\ selPc' # "raised"]_vars

C13_Witness ==
    /\ selPc = "done" /\ Len(backupFiles) >= 2
    /\ backupFiles[1] \in removed /\ backupFiles[2] \notin removed
    /\ diffRuns = 0
    /\ "error" \in DOMAIN selResult[1]
    /\ "backups_compared" \in DOMAIN selResult[1]

\* C14 as claimed: in every result of compare_configs identical is true
\* exactly when differences is empty.
C14_IdenticalIffNoDifferences ==
    \A k \in 1..Len(diffOut) :
        diffOut[k].identical <=> (diffOut[k].differences = <<>>)

\* C14 amended: in every result of compare_configs that carries no error
\* field identical is true exactly when differences is empty; a result that
\* carries an error field has identical false and differences empty.
C14_IdenticalIffNoDifferencesUnlessError ==
    \A k \in 1..Len(diffOut) :
        IF "error" \in DOMAIN diffOut[k]
        THEN ~diffOut[k].identical /\ diffOut[k].differences = <<>>
        ELSE diffOut[k].identical <=> (diffOut[k].differences = <<>>)

C14_Witness ==
    /\ Len(diffOut) = 3
    /\ "error" \notin DOMAIN diffOut[1] /\ "error" \notin DOMAIN diffOut[3]
    /\ ~diffOut[1].identical /\ Len(diffOut[1].differences) = 1
    /\ diffOut[3].identical /\ diffOut[3].differences = <<>>

\* C15: filter_ignored_lines applied to its own output returns that output.
C15_Idempotent ==
    Len(filterOut) >= 2 => filterOut[2] = filterOut[1]

\* the lines of a text that no pattern of the checker ignores
C17_Kept(line) ==
    ~\E k \in 1..Len(filterIn.patterns) :
        StartsWith(Strip(line), filterIn.patterns[k])

\* C17: filter_ignored_lines returns the lines of the text whose stripped
\* form starts with no ignore pattern, unstripped and in their order, joined
\* by single line feeds; the empty text gives the empty text.
C17_KeptLinesJoined ==
    Len(filterOut) >= 1 =>
        /\ filterOut[1] = Join(SelectSeq(Splitlines(filterIn.text), C17_Kept))
        /\ filterIn.text = <<>> => filterOut[1] = <<>>

C17_Witness ==
    /\ Len(filterOut) >= 1
    /\ filterIn.patterns = DefaultPatterns
    /\ filterIn.text = <<Space, Bang, LF>> \o <<Space>>
    /\ filterOut[1] = <<Space>>

\* the texts and normalized lines of the k-th call of compare_configs
CallFile(k, side) == diffIn.files[CallPlan[k][side]]
CallLines(k, side) ==
    Splitlines(FilterIgnoredLines(CallFile(k, side).text, diffIn.patterns))
CallReadable(k) == CallFile(k, 1).readable /\ CallFile(k, 2).readable

\* C16: with n the length of the longer normalized line sequence, the
\* differences hold a record for line i exactly for the i in 1..n at which
\* the two padded sequences differ, with the line of the first text as
\* old_value and the line of the second as new_value, in strictly increasing
\* line_number order.
C16_PositionalDiff ==
    \A k \in 1..Len(diffOut) :
        CallReadable(k) =>
            LET l1 == CallLines(k, 1)
                l2 == CallLines(k, 2)
                n == IF Len(l1) >= Len(l2) THEN Len(l1) ELSE Len(l2)
                D == diffOut[k].differences
            IN  /\ LineNumbers(D) =
                       {i \in 1..n : PaddedLine(l1, i) # PaddedLine(l2, i)}
                /\ \A d \in 1..Len(D) :
                       /\ D[d].old_value = PaddedLine(l1, D[d].line_number)
                       /\ D[d].new_value = PaddedLine(l2, D[d].line_number)
                /\ \A d \in 1..(Len(D) - 1) :
                       D[d].line_number < D[d + 1].line_number

C16_Witness ==
    /\ Len(diffOut) >= 2
    /\ diffIn.patterns = NoPatterns
    /\ diffIn.files[1] = Readable(<<97, LF, Bang>>)
    /\ diffIn.files[2] = Readable(<<97>>)
    /\ diffOut[1].differences =
           <<[line_number |-> 2, old_value |-> <<Bang>>, new_value |-> <<>>]>>
    /\ diffOut[2].differences =
           <<[line_number |-> 2, old_value |-> <<>>, new_value |-> <<Bang>>]>>

\* C18: a call of compare_configs with an input that cannot be read returns
\* a result with identical false, an error field, no differences and
\* differences_count 0.
C18_ReadFailureIsResult ==
    \A k \in 1..Len(diffOut) :
        ~CallReadable(k) =>
            /\ "error" \in DOMAIN diffOut[k]
            /\ diffOut[k].identical = FALSE
            /\ diffOut[k].differences = <<>>
            /\ diffOut[k].differences_count = 0

C18_Witness ==
    /\ Len(diffOut) = 3
    /\ diffIn.files[1].readable /\ ~diffIn.files[2].readable
    /\ "error" \in DOMAIN diffOut[1] /\ "error" \in DOMAIN diffOut[2]
    /\ "error" \notin DOMAIN diffOut[3]

\* C19: a readable file compared with itself gives identical true and
\* differences_count 0.
C19_DiffIdentity ==
    \A k \in 1..Len(diffOut) :
        (CallPlan[k][1] = CallPlan[k][2] /\ CallReadable(k)) =>
            /\ diffOut[k].identical = TRUE
            /\ diffOut[k].differences_count = 0

C19_Witness ==
    /\ Len(diffOut) = 3
    /\ diffIn.patterns = DefaultPatterns
    /\ diffIn.files[1] = Readable(<<Bang, LF, 97, LF>> )
    /\ diffOut[3].identical /\ diffOut[3].differences_count = 0

\* C20: compare(A, B) and compare(B, A) of two readable files give the same
\* identical flag and the same set of differing line numbers, and the
\* records of a line have old_value and new_value exchanged.
C20_Symmetric ==
    (Len(diffOut) >= 2 /\ CallReadable(1)) =>
        LET ab == diffOut[1]
            ba == diffOut[2]
        IN  /\ ab.identical = ba.identical
            /\ LineNumbers(ab.differences) = LineNumbers(ba.differences)
            /\ \A d \in 1..Len(ab.differences), e \in 1..Len(ba.differences) :
                   ab.differences[d].line_number = ba.differences[e].line_number =>
                       /\ ab.differences[d].old_value = ba.differences[e].new_value
                       /\ ab.differences[d].new_value = ba.differences[e].old_value

C20_Witness ==
    /\ Len(diffOut) >= 2 /\ CallReadable(1)
    /\ diffIn.files[1].text = <<97>> /\ diffIn.files[2].text = <<97, LF, 97>>
    /\ ~diffOut[1].identical /\ ~diffOut[2].identical
    /\ diffOut[1].differences[1].new_value = <<97>>
    /\ diffOut[2].differences[1].old_value = <<97>>

\* the summary of a comparison with count differences
FoundSummary(count) == SummaryFound \o Digits(count) \o SummaryDifferences

\* C25 as claimed: in every result of compare_configs the summary is
\* "Configurations are identical" when identical is true and otherwise
\* "Found {differences_count} differences", and differences_count is the
\* length of differences.
C25_Summary ==
    \A k \in 1..Len(diffOut) :
        /\ diffOut[k].summary =
               IF diffOut[k].identical THEN SummaryIdentical
               ELSE FoundSummary(diffOut[k].differences_count)
        /\ diffOut[k].differences_count = Len(diffOut[k].differences)

\* C25 amended: in every result of compare_configs differences_count is
\* the length of differences; in a result without an error field the
\* summary is "Configurations are identical" when identical is true and
\* otherwise "Found {differences_count} differences"; in a result with an
\* error field the summary starts with "Comparison error: ".
C25_SummaryUnlessError ==
    \A k \in 1..Len(diffOut) :
        /\ diffOut[k].differences_count = Len(diffOut[k].differences)
        /\ IF "error" \in DOMAIN diffOut[k]
           THEN StartsWith(diffOut[k].summary, SummaryError)
           ELSE diffOut[k].summary =
                    IF diffOut[k].identical THEN SummaryIdentical
                    ELSE FoundSummary(diffOut[k].differences_count)

C25_Witness ==
    /\ Len(diffOut) = 3
    /\ diffIn.patterns = DefaultPatterns
    /\ diffOut[1].differences_count = 2
    /\ diffOut[1].summary = FoundSummary(2)
    /\ diffOut[3].summary = SummaryIdentical

\* C28 as claimed: when compare_configs reports identical true the two
\* normalized texts have the same number of lines and the same line at
\* every position.
C28_IdenticalSameLines ==
    \A k \in 1..Len(diffOut) :
        (CallReadable(k) /\ diffOut[k].identical) =>
            CallLines(k, 1) = CallLines(k, 2)

\* C28 amended: when compare_configs reports identical true the two
\* normalized texts have the same line at every position once the shorter
\* one is padded with empty lines: they differ at most by empty lines at
\* the end of the longer one.
C28_IdenticalSamePaddedLines ==
    \A k \in 1..Len(diffOut) :
        (CallReadable(k) /\ diffOut[k].identical) =>
            LET l1 == CallLines(k, 1)
                l2 == CallLines(k, 2)
            IN  \A i \in 1..(Len(l1) + Len(l2)) :
                    PaddedLine(l1, i) = PaddedLine(l2, i)

C28_Witness ==
    /\ Len(diffOut) >= 1
    /\ diffIn.patterns = DefaultPatterns
    /\ diffIn.files[1] = Readable(<<Bang, LF, 97>>)
    /\ diffIn.files[2] = Readable(<<97>>)
    /\ diffOut[1].identical

\* sub occurs in s
Contains(s, sub) ==
    \E i \in 0..(Len(s) - Len(sub)) : SubSeq(s, i + 1, i + Len(sub)) = sub

\* " not found"
NotFoundWords == <<32, 110, 111, 116, 32, 102, 111, 117, 110, 100>>

\* C22: a dry run of deploy_config never calls simulate_deployment and
\* returns success = true exactly when the device is in the inventory and the
\* config file exists and is readable; for an unknown device the result has
\* success = false and a "not found" message and the config file was not
\* looked at; for a missing config file of a known device the result has
\* success = false and a "not found" message.
C22_DryRun ==
    deployOut # <<>> =>
        LET r == deployOut[1]
            known == deployIn.device_name \in deployIn.inventory
            file == deployIn.file
        IN  /\ deployIn.dry_run =>
                /\ simulateCalls = 0
                /\ r.success <=> (known /\ file.exists /\ file.readable)
            /\ ~known =>
                /\ ~r.success
                /\ Contains(r.message, NotFoundWords)
                /\ fileLooks = 0
            /\ (known /\ ~file.exists) =>
                /\ ~r.success
                /\ Contains(r.message, NotFoundWords)

C22_Witness ==
    /\ deployOut # <<>>
    /\ deployIn.dry_run
    /\ deployIn.file = TextFile(<<Space, 97, Space, LF, LF, 97>>)
    /\ deployOut[1].success
    /\ deployOut[1].commands_count = 2
    /\ simulateCalls = 0

\* C29: the calls of the comparison side leave the snapshot store as it is:
\* every step of compare_latest_two_backups, with its get_all_backups_for_device
\* and its compare_configs, ends with the same snapshot files and the same
\* contents it started with.
C29_StoreUntouched ==
    [][(SelectList \/ SelectRead1 \/ SelectRead2) => backupDir' = backupDir]_vars

C29_Witness ==
    /\ selPc = "done"
    /\ diffRuns = 1
    /\ removed = {}
    /\ Cardinality(DOMAIN backupDir.files) = 3
    /\ \E f \in DOMAIN backupDir.files : backupDir.files[f] = <<97, LF, Space, 97>>

\* what run_daily_workflow did when it reached the end of the report step
DailyCourses ==
    {<<"backup", "comparison", "report">>, <<"backup", "skipped", "report">>}

\* C30 (order): the comparison step starts only after the backup step
\* returned results with at least one device in success, it is skipped when
\* the backup step returned None or no success, and the report step comes
\* after both of them.
C30_Order ==
    /\ backupResults # <<>> => (pc = "returned" /\ backupResults = returned)
    /\ "comparison" \in Range(steps) =>
        /\ steps[1] = "backup"
        /\ backupResults # <<>>
        /\ Len(backupResults[1].success) > 0
    /\ "skipped" \in Range(steps) =>
        /\ steps[1] = "backup"
        /\ (backupResults = <<>> \/ Len(backupResults[1].success) = 0)
    /\ "report" \in Range(steps) => steps \in DailyCourses

\* C30: in run_daily_workflow the comparison step is started only after the
\* backup step returned a result with at least one device in success, it is
\* skipped when the backup step failed or had no success, and the report
\* step is reached in every case, after both earlier steps.
C30_Workflow == []C30_Order /\ <>("report" \in Range(steps))

C30_Witness ==
    /\ dailyPc = "finished"
    /\ steps = <<"backup", "comparison", "report">>
    /\ Len(backupResults[1].success) = 1
    /\ Len(backupResults[1].failed) = 1

\* the stored snapshots of device d, those of its successful backups (two of
\* them are two successful backups at distinct seconds), and the one of a
\* set of stored snapshots that was written last (the clock of SpecRuns is
\* not set back: the last written has the latest capture time)
StoredOf(d) == {f \in DOMAIN store : store[f].device = d}
BackedUpOf(d) == {f \in StoredOf(d) : f \in backedUp}
LastWritten(F) ==
    CHOOSE f \in F : \A g \in F \ {f} : DtLess(store[g].captured, store[f].captured)

\* C27: after fleet runs that wrote two snapshots of device d at distinct
\* seconds, compare_latest_two_backups(d) compares d's own two most recently
\* written snapshots, the last written as latest and the one before as
\* previous, whatever other snapshots the store holds.
C27_OwnLastTwo ==
    (selPc = "done" /\ backupDir.exists /\ Cardinality(BackedUpOf(selDevice)) >= 2) =>
        LET own == StoredOf(selDevice)
            latest == LastWritten(own)
            previous == LastWritten(own \ {latest})
        IN  /\ "backups_compared" \in DOMAIN selResult[1]
            /\ selResult[1].backups_compared =
                   [previous |-> previous, latest |-> latest]

====
